---------------------------- MODULE Spec2Model ----------------------------
(***************************************************************************)
(* A model of the Streamlit dashboard src/py_github_debutants_01.py: one   *)
(* browser session of the script, its session state, its cached data load, *)
(* its filter widgets and the table, styles and export one script run      *)
(* produces.                                                               *)
(*                                                                         *)
(* Conventions.                                                            *)
(*  - A cell that may be absent (NaN / None / NaT) is a sequence: <<>> is  *)
(*    absent, <<v>> is the value v.                                        *)
(*  - A string is a sequence of text fragments.  The fragments " ", "(",   *)
(*    ")" and "|" are single characters; every other fragment is a piece   *)
(*    of text that holds none of these characters.  Concatenation is \o,   *)
(*    str.replace is Replace.                                              *)
(*  - A DataFrame is [cols |-> set of column names, rows |-> sequence of   *)
(*    rows, yearFloat |-> dtype of 'Debut Year'], a row a function from    *)
(*    the column names and "#" (the index label) to cells.  Reading a      *)
(*    column that is not in cols is pandas' KeyError.                      *)
(*  - The display strings of Styler.format (money_format, pct_format) do   *)
(*    not change final_df and are not modelled.                            *)
(***************************************************************************)
EXTENDS Integers, Sequences, FiniteSets, TLC

VARIABLES
    secrets,          \* st.secrets["credentials"]: <<>> when missing
    raw,              \* the spreadsheet behind file_url
    cache,            \* st.cache_data entry of download_and_load_data
    session_state,    \* st.session_state: key -> value
    selected_comp,    \* widget "Select Competition" (no key)
    selected_months,  \* widget "Select Debut Month" (no key)
    selected_years,   \* widget "Select Debut Year" (no key)
    age_slider,       \* widget "Maximum Age at Debut": <<>> untouched
    minutes_slider,   \* widget "Minimum Minutes Played": <<>> untouched
    screen            \* what the last script run rendered

vars == <<secrets, raw, cache, session_state, selected_comp, selected_months,
          selected_years, age_slider, minutes_slider, screen>>

widgets == <<selected_comp, selected_months, selected_years, age_slider,
             minutes_slider>>

-----------------------------------------------------------------------------
(* Bounds of the model.                                                    *)

MaxRows == 2       \* rows of the spreadsheets of GeneralFiles
MaxValue == 2      \* largest market value of the spreadsheets of ValueFiles

-----------------------------------------------------------------------------
(* Cells, strings and small helpers.                                       *)

NA == <<>>

IsNA(cell) == cell = NA

Range(s) == {s[i] : i \in 1..Len(s)}

RECURSIVE Replace(_, _, _)
Replace(s, old, new) ==
    IF Len(s) < Len(old) THEN s
    ELSE IF SubSeq(s, 1, Len(old)) = old
         THEN new \o Replace(SubSeq(s, Len(old) + 1, Len(s)), old, new)
         ELSE <<s[1]>> \o Replace(Tail(s), old, new)

RECURSIVE SelectRows(_, _)
SelectRows(rows, keep) ==
    IF rows = <<>> THEN <<>>
    ELSE IF keep[1] THEN <<rows[1]>> \o SelectRows(Tail(rows), Tail(keep))
         ELSE SelectRows(Tail(rows), Tail(keep))

SetMax(S) == CHOOSE x \in S : \A y \in S : y <= x

SetMin(S) == CHOOSE x \in S : \A y \in S : x <= y

RECURSIVE Gcd(_, _)
Gcd(a, b) == IF b = 0 THEN a ELSE Gcd(b, a % b)

Abs(x) == IF x < 0 THEN -x ELSE x

-----------------------------------------------------------------------------
(* download_and_load_data                                                  *)

RenameMap ==
    [comp_name |-> "Competition", country |-> "Country",
     player_name |-> "Player Name", position |-> "Position",
     nationality |-> "Nationality",
     second_nationality |-> "Second Nationality",
     debut_for |-> "Debut Club", debut_date |-> "Debut Date",
     age_debut |-> "Age at Debut", debut_month |-> "Debut Month",
     goals_for |-> "Goals For", goals_against |-> "Goals Against",
     value_at_debut |-> "Value at Debut",
     player_market_value |-> "Current Market Value",
     appearances |-> "Appearances", goals |-> "Goals",
     minutes_played |-> "Minutes Played", debut_type |-> "Debut Type",
     opponent |-> "Opponent"]

Rename(c) == IF c \in DOMAIN RenameMap THEN RenameMap[c] ELSE c

RenameColumns(df) ==
    LET old(n) == CHOOSE c \in df.cols : Rename(c) = n
        new == {Rename(c) : c \in df.cols}
    IN  [cols |-> new,
         rows |-> [i \in 1..Len(df.rows) |->
                     [n \in new \cup {"#"} |->
                        IF n = "#" THEN df.rows[i]["#"]
                        ELSE df.rows[i][old(n)]]],
         yearFloat |-> FALSE]

DaysIn(m) == IF m = 2 THEN 28 ELSE IF m \in {4, 6, 9, 11} THEN 30 ELSE 31

ToDatetime(cell) ==
    IF IsNA(cell) THEN NA
    ELSE IF cell[1].m \in 1..12 /\ cell[1].d \in 1..DaysIn(cell[1].m)
         THEN cell ELSE NA

Bundesliga == <<"Bundesliga">>
Germany == <<"Germany">>
Bundesliga1 == <<"1. ", "Bundesliga">>

StrEq(cell, s) == ~IsNA(cell) /\ cell[1] = s

FillNa(cell, s) == IF IsNA(cell) THEN <<s>> ELSE cell

Concat(a, b) == IF IsNA(a) \/ IsNA(b) THEN NA ELSE <<a[1] \o b[1]>>

CompCountryIDOf(comp, country) ==
    Concat(Concat(comp, <<<<"|", "|">>>>), FillNa(country, <<>>))

CompLabelOf(comp, country) ==
    Concat(Concat(Concat(comp, <<<<" ", "(">>>>), FillNa(country, <<>>)),
           <<<<")">>>>)

\* df[name] = cells, a Series with one cell per row
WithColumn(df, name, cells) ==
    [df EXCEPT !.cols = @ \cup {name},
               !.rows = [i \in 1..Len(df.rows) |->
                           [n \in df.cols \cup {name, "#"} |->
                              IF n = name THEN cells[i]
                              ELSE df.rows[i][n]]]]

\* The Series of f(row), row by row (written [i \in Index(df) |-> ...])
Index(df) == 1..Len(df.rows)

LoadRaises(df) ==
    \/ "Debut Date" \notin df.cols
    \/ "Competition" \notin df.cols
    \/ "Country" \notin df.cols

LoadedFrame(df) ==
    LET d1 == WithColumn(df, "Debut Date",
                  [i \in Index(df) |-> ToDatetime(df.rows[i]["Debut Date"])])
        d2 == IF "Debut Date" \in d1.cols
              THEN [WithColumn(d1, "Debut Year",
                        [i \in Index(d1) |->
                           IF IsNA(d1.rows[i]["Debut Date"]) THEN NA
                           ELSE <<d1.rows[i]["Debut Date"][1].y>>])
                    EXCEPT !.yearFloat =
                        \E i \in Index(d1) : IsNA(d1.rows[i]["Debut Date"])]
              ELSE d1
        d3 == WithColumn(d2, "Competition",
                  [i \in Index(d2) |->
                     IF /\ StrEq(d2.rows[i]["Competition"], Bundesliga)
                        /\ StrEq(d2.rows[i]["Country"], Germany)
                     THEN <<Bundesliga1>>
                     ELSE d2.rows[i]["Competition"]])
        d4 == WithColumn(d3, "CompCountryID",
                  [i \in Index(d3) |->
                     CompCountryIDOf(d3.rows[i]["Competition"],
                                     d3.rows[i]["Country"])])
    IN  WithColumn(d4, "Competition (Country)",
            [i \in Index(d4) |->
               CompLabelOf(d4.rows[i]["Competition"], d4.rows[i]["Country"])])

NoTable == [cols |-> {}, rows |-> <<>>, yearFloat |-> FALSE]

\* The function returns None after st.error(message)
None(message) == [ok |-> FALSE, data |-> NoTable, error |-> message]

DownloadError == "Error downloading file"
ReadError == "Error reading Excel file"

download_and_load_data(file, downloaded) ==
    IF ~downloaded THEN None(DownloadError)
    ELSE IF ~file.parsable THEN None(ReadError)
    ELSE LET renamed == RenameColumns(file.df)
         IN  IF LoadRaises(renamed) THEN None(ReadError)
             ELSE [ok |-> TRUE, data |-> LoadedFrame(renamed), error |-> ""]

-----------------------------------------------------------------------------
(* highlight_mv and calc_percent_change                                    *)

Get(row, col) == IF col \in DOMAIN row THEN row[col] ELSE NA

\* A float is modelled as the exact rational num/den in lowest terms, den > 0.
Rat(n, d) ==
    LET g == Gcd(Abs(n), Abs(d))
        s == IF d < 0 THEN -1 ELSE 1
    IN  [num |-> (s * n) \div g, den |-> (s * d) \div g]

RatDiv(n, d) == Rat(n, d)

RatTimes(q, k) == Rat(q.num * k, q.den)

\* The change taken from the current value to the value at debut
calc_percent_change_reversed(row) ==
    LET debut_val == Get(row, "Value at Debut")
        curr_val == Get(row, "Current Market Value")
    IN  IF IsNA(debut_val) \/ IsNA(curr_val) \/ debut_val = <<0>> THEN NA
        ELSE <<RatTimes(RatDiv(debut_val[1] - curr_val[1], debut_val[1]),
                        100)>>

calc_percent_change(row) ==
    LET debut_val == Get(row, "Value at Debut")
        curr_val == Get(row, "Current Market Value")
    IN  IF IsNA(debut_val) \/ IsNA(curr_val) \/ debut_val = <<0>> THEN NA
        ELSE <<RatTimes(RatDiv(curr_val[1] - debut_val[1], debut_val[1]),
                        100)>>

Green == "background-color: #c6f6d5"
Red == "background-color: #feb2b2"

\* A comparison with NaN is False.
Gt(a, b) == ~IsNA(a) /\ ~IsNA(b) /\ a[1] > b[1]

Lt(a, b) == ~IsNA(a) /\ ~IsNA(b) /\ a[1] < b[1]

Ge(a, b) == ~IsNA(a) /\ ~IsNA(b) /\ a[1] >= b[1]

Le(a, b) == ~IsNA(a) /\ ~IsNA(b) /\ a[1] <= b[1]

\* Equal values painted green: >= where the code has >
highlight_mv_ge(df) ==
    [i \in 1..Len(df.rows) |->
       [c \in df.cols |->
          IF /\ "Value at Debut" \in df.cols
             /\ "Current Market Value" \in df.cols
             /\ c = "Current Market Value"
          THEN IF Lt(df.rows[i]["Current Market Value"],
                     df.rows[i]["Value at Debut"]) THEN Red
               ELSE IF Ge(df.rows[i]["Current Market Value"],
                          df.rows[i]["Value at Debut"]) THEN Green
               ELSE ""
          ELSE ""]]

highlight_mv(df) ==
    [i \in 1..Len(df.rows) |->
       [c \in df.cols |->
          IF /\ "Value at Debut" \in df.cols
             /\ "Current Market Value" \in df.cols
             /\ c = "Current Market Value"
          THEN IF Lt(df.rows[i]["Current Market Value"],
                     df.rows[i]["Value at Debut"]) THEN Red
               ELSE IF Gt(df.rows[i]["Current Market Value"],
                          df.rows[i]["Value at Debut"]) THEN Green
               ELSE ""
          ELSE ""]]

-----------------------------------------------------------------------------
(* Main logic: the prepared table and the filter widgets                   *)

Empty(df) == df.rows = <<>> \/ df.cols = {}

\* df[mask], mask a boolean Series
Keep(df, mask) == [df EXCEPT !.rows = SelectRows(df.rows, mask)]

Column(df, col) == {df.rows[i][col] : i \in 1..Len(df.rows)}

\* dropna().unique(): the values of a column that are present
Present(df, col) == {cell[1] : cell \in Column(df, col) \ {NA}}

PreparedData(loaded) ==
    LET d1 == WithColumn(loaded, "% Change",
                  [i \in Index(loaded) |-> calc_percent_change(loaded.rows[i])])
    IN  IF "Age at Debut" \in d1.cols
        THEN Keep(d1, [i \in Index(d1) |-> Ge(d1.rows[i]["Age at Debut"], <<0>>)])
        ELSE d1

\* The table the current run works on (the cache holds a loaded table)
Data == PreparedData(cache[1].data)

All == <<"All">>

YearRange == 2000..2030

DigitFragments == {ToString(n) : n \in 0..9} \cup {ToString(n) : n \in YearRange}

\* str(yr) of a numpy integer, or of a numpy float when the column holds NaN
YearStr(df, yr) ==
    IF df.yearFloat THEN <<ToString(yr), ".", "0">> ELSE <<ToString(yr)>>

isdigit(s) == s # <<>> /\ \A i \in 1..Len(s) : s[i] \in DigitFragments

\* int(y) of a string of digits (one fragment in this model)
IntOf(s) == CHOOSE n \in YearRange \cup 0..9 : <<ToString(n)>> = s

\* The option lists are sorted; only membership matters to the filters.
comp_options(data) ==
    IF "Competition (Country)" \in data.cols /\ "CompCountryID" \in data.cols
    THEN {All} \cup Present(data, "Competition (Country)")
    ELSE {}

month_options(data) ==
    IF "Debut Month" \in data.cols
    THEN {All} \cup Present(data, "Debut Month")
    ELSE {}

year_options(data) ==
    IF "Debut Year" \in data.cols
    THEN {All} \cup {YearStr(data, yr) : yr \in Present(data, "Debut Year")}
    ELSE {}

HasAgeSlider(data) == "Age at Debut" \in data.cols /\ ~Empty(data)

min_age_actual(data) == SetMin(Present(data, "Age at Debut"))

max_age_actual(data) == SetMax(Present(data, "Age at Debut"))

DefaultMaxAge == 100

max_age_filter(data, slider) ==
    IF HasAgeSlider(data)
    THEN IF slider = NA THEN max_age_actual(data) ELSE slider[1]
    ELSE DefaultMaxAge

HasMinutesSlider(data) == "Minutes Played" \in data.cols /\ ~Empty(data)

\* int(data['Minutes Played'].max()) raises when the maximum is NaN
MinutesRaises(data) ==
    HasMinutesSlider(data) /\ Present(data, "Minutes Played") = {}

max_minutes(data) == SetMax(Present(data, "Minutes Played"))

min_minutes(data, slider) ==
    IF HasMinutesSlider(data) /\ slider # NA THEN slider[1] ELSE 0

\* The values the widgets return in one script run
Criteria(data, sc, sm, sy, as, ms) ==
    [comp |-> IF comp_options(data) = {} THEN {} ELSE sc,
     months |-> IF month_options(data) = {} THEN {} ELSE sm,
     years |-> IF year_options(data) = {} THEN {} ELSE sy,
     max_age |-> max_age_filter(data, as),
     min_minutes |-> min_minutes(data, ms)]

-----------------------------------------------------------------------------
(* Main logic: apply filters, sort, build the final table, style, export   *)

\* Series.isin: an absent cell is in no list
IsIn(cell, values) == ~IsNA(cell) /\ cell[1] \in values

selected_ids(sel) ==
    {Replace(Replace(c, <<" ", "(">>, <<"|", "|">>), <<")">>, <<>>) : c \in sel}

FilterComp(df, crit) ==
    IF crit.comp # {} /\ All \notin crit.comp
    THEN Keep(df,
              [i \in Index(df) |-> IsIn(df.rows[i]["CompCountryID"], selected_ids(crit.comp))])
    ELSE df

\* An empty selection taken to allow nothing
FilterMonth_EmptyIsNothing(df, crit) ==
    IF All \notin crit.months
    THEN Keep(df,
              [i \in Index(df) |-> IsIn(df.rows[i]["Debut Month"], crit.months)])
    ELSE df

FilterMonth(df, crit) ==
    IF crit.months # {} /\ All \notin crit.months
    THEN Keep(df,
              [i \in Index(df) |-> IsIn(df.rows[i]["Debut Month"], crit.months)])
    ELSE df

valid_years(sel) == {IntOf(y) : y \in {x \in sel : isdigit(x)}}

\* The year filter taken from data, not from filtered_data
FilterYear_FromData(df, crit) ==
    IF crit.years # {} /\ All \notin crit.years
    THEN Keep(Data,
              [i \in Index(Data) |-> IsIn(Data.rows[i]["Debut Year"], valid_years(crit.years))])
    ELSE df

FilterYear(df, crit) ==
    IF crit.years # {} /\ All \notin crit.years
    THEN Keep(df,
              [i \in Index(df) |-> IsIn(df.rows[i]["Debut Year"], valid_years(crit.years))])
    ELSE df

\* An exclusive upper bound: < where the code has <=
FilterAge_Exclusive(df, crit) ==
    IF "Age at Debut" \in df.cols
    THEN Keep(df,
              [i \in Index(df) |-> Lt(df.rows[i]["Age at Debut"], <<crit.max_age>>)])
    ELSE df

FilterAge(df, crit) ==
    IF "Age at Debut" \in df.cols
    THEN Keep(df,
              [i \in Index(df) |-> Le(df.rows[i]["Age at Debut"], <<crit.max_age>>)])
    ELSE df

FilterMinutes(df, crit) ==
    IF "Minutes Played" \in df.cols
    THEN Keep(df,
              [i \in Index(df) |-> Ge(df.rows[i]["Minutes Played"], <<crit.min_minutes>>)])
    ELSE df

Filter(name, df, crit) ==
    CASE name = "comp" -> FilterComp(df, crit)
      [] name = "month" -> FilterMonth(df, crit)
      [] name = "year" -> FilterYear(df, crit)
      [] name = "age" -> FilterAge(df, crit)
      [] name = "minutes" -> FilterMinutes(df, crit)

RECURSIVE FilterIn(_, _, _)
FilterIn(order, df, crit) ==
    IF order = <<>> THEN df
    ELSE FilterIn(Tail(order), Filter(order[1], df, crit), crit)

CodeOrder == <<"comp", "month", "year", "age", "minutes">>

ApplyFilters(df, crit) == FilterIn(CodeOrder, df, crit)

\* sort_values('Debut Date', ascending=False): NaT last; rows of equal date
\* keep their order (the sort of a short column is an insertion sort)
DateKey(cell) ==
    IF IsNA(cell) THEN -1
    ELSE cell[1].y * 10000 + cell[1].m * 100 + cell[1].d

RECURSIVE InsertByDate(_, _)
InsertByDate(sorted, r) ==
    IF sorted = <<>> THEN <<r>>
    ELSE IF DateKey(sorted[1]["Debut Date"]) >= DateKey(r["Debut Date"])
         THEN <<sorted[1]>> \o InsertByDate(Tail(sorted), r)
         ELSE <<r>> \o sorted

RECURSIVE SortByDateDesc(_)
SortByDateDesc(rows) ==
    IF rows = <<>> THEN <<>>
    ELSE InsertByDate(SortByDateDesc(SubSeq(rows, 1, Len(rows) - 1)),
                      rows[Len(rows)])

Pad2(n) == IF n < 10 THEN <<"0", ToString(n)>> ELSE <<ToString(n)>>

\* strftime('%d.%m.%Y'); NaT stays absent
Strftime(cell) ==
    IF IsNA(cell) THEN NA
    ELSE <<Pad2(cell[1].d) \o <<".">> \o Pad2(cell[1].m) \o <<".">>
           \o <<ToString(cell[1].y)>>>>

SortAndFormat(df) ==
    IF ~Empty(df) /\ "Debut Date" \in df.cols
    THEN LET sorted == [df EXCEPT !.rows = SortByDateDesc(df.rows)]
         IN  WithColumn(sorted, "Debut Date",
                 [i \in Index(sorted) |-> Strftime(sorted.rows[i]["Debut Date"])])
    ELSE df

DisplayList ==
    <<"Competition", "Player Name", "Position", "Nationality", "Debut Club",
      "Opponent", "Debut Date", "Age at Debut", "Goals For", "Goals Against",
      "Appearances", "Goals", "Minutes Played", "Value at Debut",
      "Current Market Value", "% Change">>

display_columns(df) == SelectSeq(DisplayList, LAMBDA c : c \in df.cols)

\* filtered_data[display_columns].reset_index(drop=True)
final_df(df) ==
    LET shown == Range(display_columns(df))
    IN  [cols |-> shown,
         rows |-> [i \in 1..Len(df.rows) |->
                     [c \in shown \cup {"#"} |->
                        IF c = "#" THEN i - 1 ELSE df.rows[i][c]]],
         yearFloat |-> df.yearFloat]

\* to_excel(index=False): the header row, then one line of cells per row
to_excel(df, header) ==
    [header |-> header,
     lines |-> [i \in 1..Len(df.rows) |->
                  [k \in 1..Len(header) |-> df.rows[i][header[k]]]]]

\* The export built for every result, the empty one too
DownloadButton_Always(df, header) == <<to_excel(df, header)>>

\* The download button is built only under "if not final_df.empty"
DownloadButton(df, header) ==
    IF ~Empty(df) THEN <<to_excel(df, header)>> ELSE NA

-----------------------------------------------------------------------------
(* One run of the script, top to bottom                                    *)

Blank(page) ==
    [page |-> page, filtered |-> {}, columns |-> <<>>, final_df |-> NoTable,
     styles |-> <<>>, count |-> 0, download |-> NA]

\* Section 8 for an authenticated session whose load returned a table
MainPage(run_clicked, loaded, sc, sm, sy, as, ms) ==
    LET data == PreparedData(loaded)
        crit == Criteria(data, sc, sm, sy, as, ms)
        filtered_data == ApplyFilters(data, crit)
        sorted == SortAndFormat(filtered_data)
        final == final_df(sorted)
    IN  IF MinutesRaises(data) THEN Blank("exception")
        ELSE IF ~run_clicked THEN Blank("prompt")
        ELSE [page |-> "results",
              filtered |-> Column(filtered_data, "#"),
              columns |-> display_columns(sorted),
              final_df |-> final,
              styles |-> highlight_mv(final),
              count |-> Len(final.rows),
              download |-> DownloadButton(final, display_columns(sorted))]

Render(ss, entry, sc, sm, sy, as, ms) ==
    IF ~ss.authenticated THEN Blank("login")
    ELSE IF ~entry.ok THEN Blank("load_failed")
    ELSE MainPage(ss.run_clicked, entry.data, sc, sm, sy, as, ms)

\* "if key not in st.session_state" and the keyed text inputs of login()
WithDefaults(ss) ==
    LET keys == DOMAIN ss \cup {"authenticated", "run_clicked"}
        auth == IF "authenticated" \in DOMAIN ss THEN ss.authenticated
                ELSE FALSE
        all == IF auth THEN keys
               ELSE keys \cup {"login_username", "login_password"}
    IN  [k \in all |->
           IF k \in DOMAIN ss THEN ss[k]
           ELSE IF k \in {"authenticated", "run_clicked"} THEN FALSE ELSE ""]

\* The widgets that the run draws, given the table it works on
WidgetsDrawn(page) == page \in {"prompt", "results", "exception"}

ButtonsDrawn(page) == page \in {"prompt", "results"}

\* The script runs with session state ss (after the callback) and the widget
\* values the browser sends; a slider drawn for the first time takes its
\* default.
RunScript(ss, sc, sm, sy, as, ms) ==
    LET ss1 == WithDefaults(ss) IN
    /\ session_state' = ss1
    /\ IF ss1.authenticated /\ cache = NA
       THEN \E downloaded \in BOOLEAN :
                cache' = <<download_and_load_data(raw, downloaded)>>
       ELSE cache' = cache
    /\ LET drawn == ss1.authenticated /\ cache'[1].ok
           data == PreparedData(cache'[1].data)
       IN  /\ age_slider' = IF drawn /\ HasAgeSlider(data) /\ as = NA
                            THEN <<max_age_actual(data)>> ELSE as
           /\ minutes_slider' = IF /\ drawn /\ HasMinutesSlider(data)
                                   /\ ~MinutesRaises(data) /\ ms = NA
                                THEN <<0>> ELSE ms
    /\ selected_comp' = sc
    /\ selected_months' = sm
    /\ selected_years' = sy
    /\ screen' = IF ss1.authenticated
                 THEN Render(ss1, cache'[1], sc, sm, sy, age_slider',
                             minutes_slider')
                 ELSE Blank("login")
    /\ UNCHANGED <<secrets, raw>>

Rerun(ss) ==
    RunScript(ss, selected_comp, selected_months, selected_years, age_slider,
              minutes_slider)

-----------------------------------------------------------------------------
(* Authentication and the callbacks                                        *)

\* One matching field is enough: "or" where the code has "and"
authenticate_either(username, password) ==
    IF secrets = NA THEN FALSE
    ELSE username = secrets[1].username \/ password = secrets[1].password

authenticate(username, password) ==
    IF secrets = NA THEN FALSE
    ELSE username = secrets[1].username /\ password = secrets[1].password

authenticate_and_login(ss) ==
    IF authenticate(ss.login_username, ss.login_password)
    THEN [ss EXCEPT !.authenticated = TRUE]
    ELSE ss

run_callback(ss) == [ss EXCEPT !.run_clicked = TRUE]

keys_to_preserve == {"authenticated", "login_username", "login_password"}

\* Deletes every key of st.session_state but the preserved ones.  The
\* filter widgets are created without key=, so they have no entry in
\* st.session_state and keep their values.
clear_callback(ss) == [k \in DOMAIN ss \cap keys_to_preserve |-> ss[k]]

-----------------------------------------------------------------------------
(* The user's steps; each is followed by a run of the script               *)

Usernames == {"admin", "guest"}
Passwords == {"s3cret", "wrong"}

TypeUsername ==
    /\ screen.page = "login"
    /\ \E u \in Usernames :
         /\ u # session_state.login_username
         /\ Rerun([session_state EXCEPT !.login_username = u])

TypePassword ==
    /\ screen.page = "login"
    /\ \E p \in Passwords :
         /\ p # session_state.login_password
         /\ Rerun([session_state EXCEPT !.login_password = p])

ClickLogin ==
    /\ screen.page = "login"
    /\ Rerun(authenticate_and_login(session_state))

Toggle(sel, o) == IF o \in sel THEN sel \ {o} ELSE sel \cup {o}

SelectCompetition ==
    /\ WidgetsDrawn(screen.page)
    /\ \E o \in comp_options(Data) :
         RunScript(session_state, Toggle(selected_comp, o), selected_months,
                   selected_years, age_slider, minutes_slider)

SelectDebutMonth ==
    /\ WidgetsDrawn(screen.page)
    /\ \E o \in month_options(Data) :
         RunScript(session_state, selected_comp, Toggle(selected_months, o),
                   selected_years, age_slider, minutes_slider)

SelectDebutYear ==
    /\ WidgetsDrawn(screen.page)
    /\ \E o \in year_options(Data) :
         RunScript(session_state, selected_comp, selected_months,
                   Toggle(selected_years, o), age_slider, minutes_slider)

SlideMaxAge ==
    /\ WidgetsDrawn(screen.page)
    /\ HasAgeSlider(Data)
    /\ \E v \in min_age_actual(Data)..max_age_actual(Data) :
         /\ <<v>> # age_slider
         /\ RunScript(session_state, selected_comp, selected_months,
                      selected_years, <<v>>, minutes_slider)

SlideMinMinutes ==
    /\ ButtonsDrawn(screen.page)
    /\ HasMinutesSlider(Data)
    /\ \E v \in 0..max_minutes(Data) :
         /\ <<v>> # minutes_slider
         /\ RunScript(session_state, selected_comp, selected_months,
                      selected_years, age_slider, <<v>>)

ClickRun ==
    /\ ButtonsDrawn(screen.page)
    /\ Rerun(run_callback(session_state))

ClickClear ==
    /\ ButtonsDrawn(screen.page)
    /\ Rerun(clear_callback(session_state))

Next ==
    \/ TypeUsername
    \/ TypePassword
    \/ ClickLogin
    \/ SelectCompetition
    \/ SelectDebutMonth
    \/ SelectDebutYear
    \/ SlideMaxAge
    \/ SlideMinMinutes
    \/ ClickRun
    \/ ClickClear

-----------------------------------------------------------------------------
(* The spreadsheets and the initial state                                  *)

RawColumns ==
    {"comp_name", "country", "player_name", "debut_date", "debut_month",
     "age_debut", "minutes_played", "value_at_debut", "player_market_value"}

Date(y, m, d) == <<[y |-> y, m |-> m, d |-> d]>>

RawRow(comp, country, player, date, month, age, minutes, vad, cmv) ==
    [comp_name |-> comp, country |-> country, player_name |-> player,
     debut_date |-> date, debut_month |-> month, age_debut |-> age,
     minutes_played |-> minutes, value_at_debut |-> vad,
     player_market_value |-> cmv]

\* A spreadsheet with the given columns and rows
Sheet(cols, rows) ==
    [parsable |-> TRUE,
     df |-> [cols |-> cols,
             rows |-> [i \in 1..Len(rows) |->
                         [c \in cols \cup {"#"} |->
                            IF c = "#" THEN i - 1 ELSE rows[i][c]]]]]

Unparsable == [parsable |-> FALSE, df |-> [cols |-> {}, rows |-> <<>>]]

\* The subsequences of s of at most n elements
RECURSIVE SubSeqs(_, _)
SubSeqs(s, n) ==
    IF s = <<>> \/ n = 0 THEN {<<>>}
    ELSE SubSeqs(Tail(s), n)
         \cup {<<s[1]>> \o t : t \in SubSeqs(Tail(s), n - 1)}

SerieA == <<"Serie A">>
Italy == <<"Italy">>

GeneralRows ==
    <<RawRow(<<SerieA>>, <<Italy>>, <<<<"Rossi">>>>, Date(2021, 8, 14),
             <<<<"Aug">>>>, <<18>>, <<1>>, <<1>>, <<2>>),
      RawRow(<<Bundesliga>>, <<Germany>>, <<<<"Maier">>>>, Date(2020, 5, 16),
             <<<<"May">>>>, <<17>>, <<0>>, <<2>>, <<1>>),
      RawRow(NA, <<Italy>>, <<<<"Bruno">>>>, Date(2021, 2, 30),
             NA, <<18>>, <<1>>, NA, <<1>>)>>

Credentials == [username |-> "admin", password |-> "s3cret"]

InitWith(files) ==
    /\ secrets \in {NA, <<Credentials>>}
    /\ raw \in files
    /\ cache = NA
    /\ session_state = WithDefaults(<<>>)
    /\ selected_comp = {}
    /\ selected_months = {}
    /\ selected_years = {}
    /\ age_slider = NA
    /\ minutes_slider = NA
    /\ screen = Blank("login")

\* Spreadsheets of one to MaxRows of these rows, and one that cannot be read
GeneralFiles ==
    {Sheet(RawColumns, rows) : rows \in SubSeqs(GeneralRows, MaxRows) \ {<<>>}}
    \cup {Unparsable}

Init == InitWith(GeneralFiles)

Spec == Init /\ [][Next]_vars

\* Two players of one competition, month and date; they differ in age and
\* minutes, so that every widget has something to choose from.
Anchor ==
    RawRow(<<SerieA>>, <<Italy>>, <<<<"Rossi">>>>, Date(2021, 8, 14),
           <<<<"Aug">>>>, <<17>>, <<0>>, <<1>>, <<1>>)

Player(age, minutes, vad, cmv) ==
    RawRow(<<SerieA>>, <<Italy>>, <<<<"Bianchi">>>>, Date(2021, 8, 14),
           <<<<"Aug">>>>, age, minutes, vad, cmv)

\* Market values: absent, zero or positive
Values == {NA} \cup {<<v>> : v \in 0..MaxValue}

ValueFiles ==
    {Sheet(RawColumns, <<Anchor, Player(<<18>>, <<1>>, vad, cmv)>>) :
        vad \in Values, cmv \in Values}

InitValues == InitWith(ValueFiles)

SpecValues == InitValues /\ [][Next]_vars

\* Competition and country names with and without parentheses, absent
\* names, and a debut date that cannot be parsed
Named(comp, country, date) ==
    RawRow(comp, country, <<<<"Verdi">>>>, date, <<<<"Aug">>>>, <<18>>, <<1>>,
           <<1>>, <<2>>)

NameFiles ==
    {Sheet(RawColumns, <<Anchor, row>>) :
        row \in {Named(<<<<"Coppa", " ", "(", "U19", ")">>>>, NA, Date(2021, 8, 14)),
                 Named(<<<<"K League">>>>, <<<<"Korea", " ", "(", "South", ")">>>>,
                       Date(2021, 8, 14)),
                 Named(<<Bundesliga>>, <<Germany>>, Date(2020, 5, 16)),
                 Named(NA, <<Italy>>, Date(2020, 5, 16)),
                 Named(<<Bundesliga>>, <<Italy>>, Date(2021, 2, 30))}}

InitNames == InitWith(NameFiles)

SpecNames == InitNames /\ [][Next]_vars

\* Ages at debut: absent, negative, and the ages of Scenario D, or no valid
\* age at all; minutes played: absent in one row, absent in every row
AgeFiles ==
    {Sheet(RawColumns, <<Anchor, Player(<<18>>, <<1>>, <<1>>, <<2>>)>> \o rest) :
        rest \in {<<>>, <<Player(<<23>>, <<1>>, <<1>>, <<2>>)>>,
                  <<Player(NA, <<1>>, <<1>>, <<2>>)>>,
                  <<Player(<<-1>>, <<1>>, <<1>>, <<2>>)>>,
                  <<Player(<<18>>, NA, <<1>>, <<2>>)>>}}
    \cup {Sheet(RawColumns, <<Player(<<18>>, NA, <<1>>, <<2>>)>>),
          Sheet(RawColumns, <<Player(<<-1>>, <<1>>, <<1>>, <<2>>)>>)}

InitAges == InitWith(AgeFiles)

SpecAges == InitAges /\ [][Next]_vars

\* Spreadsheets that lack any subset of the optional columns
OptionalColumns == RawColumns \ {"player_name"}

ColumnFiles ==
    {Sheet({"player_name"} \cup cols,
           <<Anchor, Player(<<18>>, <<1>>, <<1>>, <<2>>)>>) :
        cols \in SUBSET OptionalColumns}

InitColumns == InitWith(ColumnFiles)

SpecColumns == InitColumns /\ [][Next]_vars

-----------------------------------------------------------------------------
(* Properties                                                              *)

Results == screen.page = "results"

\* The criteria of the current run
Crit ==
    Criteria(Data, selected_comp, selected_months, selected_years,
             age_slider, minutes_slider)

Ids(df) == Column(df, "#")

FinalRows == screen.final_df.rows

BaselineUnusable(b) == IsNA(b) \/ b = <<0>>

\* p is the float (c - b) / b * 100
IsPercentChange(p, b, c) ==
    /\ ~IsNA(p) /\ ~IsNA(b) /\ ~IsNA(c)
    /\ p[1].den > 0
    /\ p[1].num * b[1] = (c[1] - b[1]) * 100 * p[1].den

(* C1, as stated: in every row of the result table the percent change is   *)
(* absent if and only if the baseline (Value at Debut) is absent or zero,  *)
(* and in every other case it equals (current - baseline) / baseline * 100.*)
C1_AbsentIffBaselineAbsentOrZero ==
    Results =>
        \A i \in 1..Len(FinalRows) :
            LET b == FinalRows[i]["Value at Debut"]
                c == FinalRows[i]["Current Market Value"]
                p == FinalRows[i]["% Change"]
            IN  /\ IsNA(p) <=> BaselineUnusable(b)
                /\ ~BaselineUnusable(b) => IsPercentChange(p, b, c)

(* C1, amended: the percent change is absent if and only if the baseline   *)
(* is absent or zero or the current value is absent; in every other case   *)
(* it equals (current - baseline) / baseline * 100.                        *)
C1_AbsentIffBaselineUnusableOrCurrentAbsent ==
    Results =>
        \A i \in 1..Len(FinalRows) :
            LET b == FinalRows[i]["Value at Debut"]
                c == FinalRows[i]["Current Market Value"]
                p == FinalRows[i]["% Change"]
            IN  /\ IsNA(p) <=> (BaselineUnusable(b) \/ IsNA(c))
                /\ ~(BaselineUnusable(b) \/ IsNA(c)) => IsPercentChange(p, b, c)

\* A result table with a computed change that is not zero, and one with a
\* usable baseline whose current value is absent
C1_Witness ==
    /\ Results
    /\ \E i \in 1..Len(FinalRows) :
           /\ ~IsNA(FinalRows[i]["% Change"])
           /\ FinalRows[i]["% Change"][1].num = 0
    /\ \E i \in 1..Len(FinalRows) :
           /\ ~BaselineUnusable(FinalRows[i]["Value at Debut"])
           /\ IsNA(FinalRows[i]["Current Market Value"])
           /\ IsNA(FinalRows[i]["% Change"])

\* The value of a record of the loaded table as the filter widgets offer it
OwnYear(r) ==
    IF IsNA(r["Debut Year"]) THEN NA ELSE <<YearStr(Data, r["Debut Year"][1])>>

\* A selection that restricts: not empty, without the "All" marker
Restricts(sel) == sel # {} /\ All \notin sel

DataRows == {Data.rows[i] : i \in 1..Len(Data.rows)}

(* C2, as stated: for each categorical filter (competition/country, debut  *)
(* month, debut year) whose selection is not empty, holds no "All" and is  *)
(* made of offered options, a record passes that filter if and only if its *)
(* own 'Competition (Country)' label, debut month or debut year is one of  *)
(* the selected values.                                                    *)
C2_PassesIffOwnValueSelected ==
    Results =>
        /\ (Restricts(Crit.comp) /\ Crit.comp \subseteq comp_options(Data)) =>
              \A r \in DataRows :
                  r["#"] \in Ids(FilterComp(Data, Crit))
                      <=> IsIn(r["Competition (Country)"], Crit.comp)
        /\ (Restricts(Crit.months) /\ Crit.months \subseteq month_options(Data)) =>
              \A r \in DataRows :
                  r["#"] \in Ids(FilterMonth(Data, Crit))
                      <=> IsIn(r["Debut Month"], Crit.months)
        /\ (Restricts(Crit.years) /\ Crit.years \subseteq year_options(Data)) =>
              \A r \in DataRows :
                  r["#"] \in Ids(FilterYear(Data, Crit))
                      <=> IsIn(OwnYear(r), Crit.years)

Without(order, name) == SelectSeq(order, LAMBDA n : n # name)

(* C3: for every categorical filter (competition/country, debut month,     *)
(* debut year), a selection that is empty or holds "All" gives the result  *)
(* set of the run in which that filter is not applied at all, so every     *)
(* record passes it, records with an absent value included.                *)
C3_NoRestrictionIsNoFilter ==
    Results =>
        /\ ~Restricts(selected_comp) =>
              screen.filtered = Ids(FilterIn(Without(CodeOrder, "comp"), Data, Crit))
        /\ ~Restricts(selected_months) =>
              screen.filtered = Ids(FilterIn(Without(CodeOrder, "month"), Data, Crit))
        /\ ~Restricts(selected_years) =>
              screen.filtered = Ids(FilterIn(Without(CodeOrder, "year"), Data, Crit))

\* A result that holds a record with no competition label, no month and no
\* year, under an empty, an "All" and a mixed selection
C3_Witness ==
    /\ Results
    /\ selected_comp = {}
    /\ selected_months = {All}
    /\ All \in selected_years /\ selected_years # {All}
    /\ \E r \in DataRows :
           /\ r["#"] \in screen.filtered
           /\ IsNA(r["Competition (Country)"])
           /\ IsNA(r["Debut Month"])
           /\ IsNA(r["Debut Year"])
    /\ \E r \in DataRows :
           /\ r["#"] \in screen.filtered
           /\ ~IsNA(r["Debut Month"])

\* The rows of the loaded table, before the main logic drops any
LoadedRows == {cache[1].data.rows[i] : i \in 1..Len(cache[1].data.rows)}

PassesAgeFilter(r) == r["#"] \in Ids(FilterAge(Data, Crit))

(* C4, as stated: the age filter is an inclusive range with two bounds;    *)
(* for any bounds low <= high a record passes if and only if               *)
(* low <= age <= high, and a record with an absent age fails (so with      *)
(* bounds [18,23] age 17 is excluded and age 18 is included).  The run     *)
(* takes one bound from the user, the maximum; the statement is taken for  *)
(* every lower bound up to it.                                             *)
C4_InclusiveRangeWithTwoBounds ==
    Results =>
        \A low \in 0..Crit.max_age :
            \A r \in LoadedRows :
                PassesAgeFilter(r)
                    <=> (Ge(r["Age at Debut"], <<low>>)
                         /\ Le(r["Age at Debut"], <<Crit.max_age>>))

(* C4, amended: the age filter is an inclusive upper bound only; a record  *)
(* is in the result if and only if its age is present, not negative and at *)
(* most the chosen maximum, and it passes the other filters; a record with *)
(* an absent age fails.                                                    *)
C4_InclusiveUpperBoundOnly ==
    Results =>
        screen.filtered =
            {r["#"] : r \in
                {x \in LoadedRows :
                    /\ Ge(x["Age at Debut"], <<0>>)
                    /\ Le(x["Age at Debut"], <<Crit.max_age>>)
                    /\ x["#"] \in Ids(FilterIn(Without(CodeOrder, "age"),
                                              cache[1].data, Crit))}}

\* Maximum 18 chosen over ages 17, 18 and 23: 17 and 18 are in the result
\* and 23 is not
C4_Witness ==
    /\ Results
    /\ Crit.max_age = 18
    /\ \E r \in LoadedRows : r["Age at Debut"] = <<17>> /\ r["#"] \in screen.filtered
    /\ \E r \in LoadedRows : r["Age at Debut"] = <<18>> /\ r["#"] \in screen.filtered
    /\ \E r \in LoadedRows : r["Age at Debut"] = <<23>> /\ r["#"] \notin screen.filtered

Increased(b, c) == ~IsNA(b) /\ ~IsNA(c) /\ c[1] > b[1]

Decreased(b, c) == ~IsNA(b) /\ ~IsNA(c) /\ c[1] < b[1]

(* C5: in every row of the displayed table the Current Market Value cell   *)
(* is green if and only if current > baseline, red if and only if          *)
(* current < baseline, and has no style otherwise (equal values, or either *)
(* value absent); no other cell of the row has a style.                    *)
C5_HighlightByComparison ==
    Results =>
        /\ Len(screen.styles) = Len(FinalRows)
        /\ \A i \in 1..Len(FinalRows) :
               LET b == FinalRows[i]["Value at Debut"]
                   c == FinalRows[i]["Current Market Value"]
                   style == screen.styles[i]
               IN  /\ DOMAIN style = Range(screen.columns)
                   /\ style["Current Market Value"] = Green <=> Increased(b, c)
                   /\ style["Current Market Value"] = Red <=> Decreased(b, c)
                   /\ style["Current Market Value"] \in {Green, Red, ""}
                   /\ \A col \in DOMAIN style \ {"Current Market Value"} :
                          style[col] = ""

\* A displayed table with a green cell and a cell left plain for equal values
C5_Witness ==
    /\ Results
    /\ \E i \in 1..Len(FinalRows) :
           /\ screen.styles[i]["Current Market Value"] = Green
           /\ Gt(FinalRows[i]["Current Market Value"], FinalRows[i]["Value at Debut"])
    /\ \E i \in 1..Len(FinalRows) :
           /\ screen.styles[i]["Current Market Value"] = ""
           /\ FinalRows[i]["Current Market Value"] = FinalRows[i]["Value at Debut"]

(* C6, as stated: when the filters leave zero records the export is still  *)
(* produced and offered, and it holds exactly the header row of the        *)
(* displayed columns and no data rows.                                     *)
C6_EmptyResultIsExported ==
    (Results /\ screen.count = 0) =>
        /\ screen.download # NA
        /\ screen.download[1].header = screen.columns
        /\ screen.download[1].lines = <<>>

(* C6, amended: when the filters leave zero records the table and the      *)
(* count 0 are shown and no export is produced or offered; an export is    *)
(* offered exactly when the result holds at least one record, and it then  *)
(* holds the header row of the displayed columns and one data row per      *)
(* record.                                                                 *)
C6_ExportOnlyOfNonEmptyResult ==
    Results =>
        /\ screen.download # NA <=> screen.count > 0
        /\ screen.download # NA =>
              /\ screen.download[1].header = screen.columns
              /\ Len(screen.download[1].lines) = screen.count
              /\ \A i \in 1..screen.count :
                     \A k \in 1..Len(screen.columns) :
                         screen.download[1].lines[i][k]
                             = FinalRows[i][screen.columns[k]]

\* A run whose filters leave no record: the table is shown, no export
C6_Witness ==
    /\ Results
    /\ screen.count = 0
    /\ Data.rows # <<>>
    /\ screen.columns # <<>>
    /\ screen.download = NA

\* The filter criteria as they are right after the table is built
NoRestriction ==
    /\ selected_comp = {}
    /\ selected_months = {}
    /\ selected_years = {}
    /\ HasAgeSlider(Data) => age_slider = <<max_age_actual(Data)>>
    /\ HasMinutesSlider(Data) => minutes_slider = <<0>>

(* C7: from any reachable state of an authenticated session the Clear      *)
(* trigger leads to the state right after the table was built: the run     *)
(* flag is false and no result is shown, every held filter criterion is    *)
(* back to "no restriction", the authenticated flag and the login fields   *)
(* are unchanged, and the table is not fetched again.                      *)
C7_ClearRestoresStateAfterLoad ==
    [][ClickClear =>
          /\ ~session_state'.run_clicked
          /\ screen'.page = "prompt"
          /\ NoRestriction'
          /\ session_state'.authenticated = session_state.authenticated
          /\ session_state'.login_username = session_state.login_username
          /\ session_state'.login_password = session_state.login_password
          /\ cache' = cache]_vars

(* C8: for any parsable spreadsheet that lacks any subset of the optional  *)
(* columns (debut date, competition, country, debut month, age at debut,   *)
(* minutes played, value at debut, current market value) the load yields a *)
(* table, and no later step of the run fails on a missing column.          *)
C8_MissingOptionalColumnsLoad ==
    (cache # NA /\ raw.parsable /\ cache[1].error # DownloadError) =>
        /\ cache[1].ok
        /\ screen.page \in {"prompt", "results"}

Arrangements(s) ==
    {p \in [1..Len(s) -> Range(s)] : \A x \in Range(s) : \E i \in 1..Len(s) : p[i] = x}

Orders == Arrangements(CodeOrder)

(* C9: the filters combine as a conjunction: the result set is exactly the *)
(* set of records that pass every one of the five filters (competition,    *)
(* month, year, age, minimum minutes) taken alone, and applying the five   *)
(* filters in any order yields the same set of records.                    *)
C9_FiltersAreAConjunction ==
    Results =>
        /\ screen.filtered =
              {id \in Ids(Data) :
                  \A name \in Range(CodeOrder) : id \in Ids(Filter(name, Data, Crit))}
        /\ \A order \in Orders :
              Ids(FilterIn(order, Data, Crit)) = screen.filtered

\* Two categorical filters restrict and the result is neither empty nor
\* the whole table
C9_Witness ==
    /\ Results
    /\ Restricts(selected_comp)
    /\ Restricts(selected_years)
    /\ Ids(FilterComp(Data, Crit)) # Ids(Data)
    /\ Ids(FilterYear(Data, Crit)) # Ids(FilterComp(Data, Crit))
    /\ screen.filtered # {}
    /\ screen.filtered # Ids(Data)

Authenticated == session_state.authenticated

RunClicked == session_state.run_clicked

(* C10: over any sequence of logins, loads, Run and Clear clicks and       *)
(* filter changes, a result table (with its count and export) is produced  *)
(* only if the session is authenticated, the load returned a table and the *)
(* run flag is true; the authenticated flag becomes true only by a login   *)
(* whose username and password both equal the stored credentials; the run  *)
(* flag becomes true only by Run and stays true until Clear; after a       *)
(* failed load no filter widget and no result is produced.                 *)
C10_GatedResults ==
    /\ [](Results => Authenticated /\ cache # NA /\ cache[1].ok /\ RunClicked)
    /\ []((screen.count > 0 \/ screen.download # NA \/ screen.filtered # {})
             => Results)
    /\ []((Authenticated /\ cache # NA /\ ~cache[1].ok)
             => screen.page = "load_failed")
    /\ []((Authenticated /\ ~WidgetsDrawn(screen.page)) => widgets = <<{}, {}, {}, NA, NA>>)
    /\ [][(~Authenticated /\ Authenticated') =>
             /\ ClickLogin
             /\ secrets # NA
             /\ session_state.login_username = secrets[1].username
             /\ session_state.login_password = secrets[1].password]_vars
    /\ [][(~RunClicked /\ RunClicked') => ClickRun]_vars
    /\ [][(RunClicked /\ ~RunClicked') => ClickClear]_vars

\* A result is on the screen after a login, a load and a click on Run
C10_Witness ==
    /\ Results
    /\ Authenticated
    /\ RunClicked
    /\ cache[1].ok
    /\ session_state.login_username = Credentials.username
    /\ screen.count > 0
    /\ screen.download # NA
=============================================================================
